---- MODULE Spec2Model ----
(***************************************************************************)
(* Occupancy inference core of the virtual occupancy sensor: the           *)
(* controller's state machine, the contact and motion sensor registries,   *)
(* the checking sensor registry (one timer per motion sensor) and the      *)
(* device that wires them together.                                        *)
(*                                                                         *)
(* Time is counted in units of 1000 ms.                                    *)
(***************************************************************************)
EXTENDS Integers, Sequences, FiniteSets, TLC

(***************************************************************************)
(* Bounds of the model.                                                    *)
(***************************************************************************)
\* settings.motion_timeout, in seconds: the default per-sensor timeout
motion_timeout == 2
\* longest true->false duration the model measures (longer ones saturate)
MaxDuration == 2
\* most onStateChange invocations that may be suspended at an await at once
MaxPending == 1
\* most replaced checking registries whose timers may still be pending
MaxStale == 1

\* MIN_LEARNED_TIMEOUT_MS, in units of 1000 ms
MIN_LEARNED_TIMEOUT == 1

DoorIds == {"d1", "d2"}
MotionIds == {"m1", "m2"}

\* what a capability listener may deliver: true, false, null, or a value that
\* is not a boolean
EventValues == {"true", "false", "null", "text"}

OccupancyState == {"empty", "occupied", "door_open", "checking"}
EventType == {"any_door_open", "all_doors_closed", "motion_detected",
              "motion_timeout", "timeout"}

\* VirtualCheckingSensor.checkTimeout = null: no timer pending
NoTimer == -1
\* TimeoutLearningData.lastTrueTimestamp = null
NoTimestamp == -1
TrueStamp == 0
\* TimeoutLearningData.learnedTimeoutMs = null
NotLearned == 0
\* device.checkingSensorRegistry = null
NoReg == [none |-> TRUE]
\* TriggerContext.timeoutSeconds = null
NoSeconds == -1

VARIABLES
  rv,                      \* a CheckingSensorRegistry on its own, with its run's record
  lr,                      \* a MotionSensorRegistry on its own, with its TimeoutStore
  settings,                \* getSettings(): the sensor ids and auto_learn_timeout
  currentState,            \* controller.currentState
  occupancy_state,         \* the published occupancy_state capability
  alarm_motion,            \* the published alarm_motion capability
  deleted,                 \* whether onDeleted has run
  measure,                 \* the learning data on its own, under a running clock
  checkingSensorRegistry,  \* device.checkingSensorRegistry (NoReg = null)
  stale,                   \* registries the device let go of while a timer was pending
  pendingStateChanges,     \* onStateChange invocations suspended at an await
  contactState,            \* contactSensorRegistry.capabilityState
  contactListeners,        \* contactSensorRegistry.listeners (its keys)
  contactAdding,           \* door ids whose addListener has not resolved yet
  motionState,             \* motionSensorRegistry.capabilityState
  motionListeners,         \* motionSensorRegistry.listeners (its keys)
  motionAdding,            \* motion ids whose addListener has not resolved yet
  timeoutLearning,         \* motionSensorRegistry.timeoutLearning
  storedTimeouts,          \* the persisted deviceId -> timeout record
  last                     \* the operation of the last step and what it did

vars == <<rv, lr, measure, settings, currentState, occupancy_state, alarm_motion, deleted,
          checkingSensorRegistry, stale,
          pendingStateChanges,
          contactState, contactListeners, contactAdding,
          motionState, motionListeners, motionAdding, timeoutLearning,
          storedTimeouts, last>>

(***************************************************************************)
(* Small helpers on functions used as Maps.                                *)
(***************************************************************************)
MapSet(m, k, v) == [x \in DOMAIN m \cup {k} |-> IF x = k THEN v ELSE m[x]]
MapDelete(m, k) == [x \in DOMAIN m \ {k} |-> m[x]]
MapValues(m) == {m[x] : x \in DOMAIN m}
EmptyMap == [x \in {} |-> TRUE]

(***************************************************************************)
(* VirtualOccupancySensorController.                                       *)
(*                                                                         *)
(* The operators below work on a record d holding what one synchronous     *)
(* call chain reads and writes:                                            *)
(*   currentState, checkingSensorRegistry, stale, pendingStateChanges      *)
(*   notified : the state-change callbacks invoked so far in this step     *)
(*   emitted  : the registerEvent calls made so far in this step           *)
(***************************************************************************)

\* stop that leaves the platform timer armed
stop_keepsTimer(sensor) == sensor

\* VirtualCheckingSensor.stop / clearTimeout
stop(sensor) == [sensor EXCEPT !.checkTimeout = NoTimer]

\* VirtualCheckingSensor.start: clears the old timer and arms a new one
start(sensor) == [sensor EXCEPT !.checkTimeout = sensor.timeoutMs]

\* new CheckingSensorRegistry(configs): one unstarted VirtualCheckingSensor
\* per config; configs maps device id -> timeoutMs
NewCheckingSensorRegistry(configs) ==
  [deviceConfigs |-> configs,
   listeners |-> [id \in DOMAIN configs |->
                    [timeoutMs |-> configs[id], checkTimeout |-> NoTimer]],
   triggeredDevices |-> {}]

\* CheckingSensorRegistry.startChecking
startChecking(reg) ==
  [reg EXCEPT !.triggeredDevices = {},
              !.listeners = [id \in DOMAIN reg.listeners |-> start(reg.listeners[id])]]

\* CheckingSensorRegistry.stopChecking
stopChecking(reg) ==
  [reg EXCEPT !.triggeredDevices = {},
              !.listeners = [id \in DOMAIN reg.listeners |-> stop(reg.listeners[id])]]

\* CheckingSensorRegistry.removeListener, for every config of the registry
removeAllListeners(reg) ==
  [reg EXCEPT !.listeners = [id \in DOMAIN reg.listeners \ DOMAIN reg.deviceConfigs
                               |-> reg.listeners[id]]]

\* whether a registry still has a timer that will fire
HasPendingTimer(reg) ==
  \E id \in DOMAIN reg.listeners : reg.listeners[id].checkTimeout # NoTimer

\* the device lets go of a registry: its timers, if any are left, still fire
release(staleRegs, reg) ==
  IF HasPendingTimer(reg) THEN Append(staleRegs, reg) ELSE staleRegs

\* onStateChange that leaves the checking registry to the code after its awaits
onStateChange_afterAwait(d, state) ==
  [d EXCEPT !.occupancy_state = state,
            !.pendingStateChanges = Append(@, state)]

\* device.onStateChange up to its first await: a state other than checking
\* stops and drops the checking registry; the rest runs after the await
onStateChange(d, state) ==
  LET stopped == IF state # "checking" /\ d.checkingSensorRegistry # NoReg
                 THEN [d EXCEPT !.stale = release(@, stopChecking(d.checkingSensorRegistry)),
                                !.checkingSensorRegistry = NoReg]
                 ELSE d
  IN [stopped EXCEPT !.occupancy_state = state,
                     !.pendingStateChanges = Append(@, state)]

\* controller.transitionTo: nothing when already in newState; otherwise the
\* state is set and the state-change callback is invoked once
notification(newState, context) == [state |-> newState, context |-> context]

\* transitionTo without the test for the current state
transitionTo_unchecked(d, newState, context) ==
  onStateChange(
    [d EXCEPT !.currentState = newState,
              !.notified = Append(@, notification(newState, context))],
    newState)

transitionTo(d, newState, context) ==
  IF d.currentState = newState
  THEN d
  ELSE onStateChange(
         [d EXCEPT !.currentState = newState,
                   !.notified = Append(@, notification(newState, context))],
         newState)

handleEventInEmpty(d, event, context) ==
  IF event = "motion_detected" THEN transitionTo(d, "occupied", context)
  ELSE IF event = "any_door_open" THEN transitionTo(d, "door_open", context)
  ELSE d

\* occupied that gives up on a single sensor's timeout
handleEventInOccupied_motionTimeout(d, event, context) ==
  IF event = "any_door_open" THEN transitionTo(d, "door_open", context)
  ELSE IF event = "motion_timeout" THEN transitionTo(d, "empty", context)
  ELSE d

\* occupied that does not look at the doors
handleEventInOccupied_deaf(d, event, context) == d

handleEventInOccupied(d, event, context) ==
  IF event = "any_door_open" THEN transitionTo(d, "door_open", context)
  ELSE d

\* door_open that lets motion decide at once
handleEventInDoorOpen_motion(d, event, context) ==
  IF event = "all_doors_closed" THEN transitionTo(d, "checking", context)
  ELSE IF event = "motion_detected" THEN transitionTo(d, "occupied", context)
  ELSE d

\* door_open that concludes empty as soon as the doors are closed
handleEventInDoorOpen_guess(d, event, context) ==
  IF event = "all_doors_closed" THEN transitionTo(d, "empty", context)
  ELSE d

handleEventInDoorOpen(d, event, context) ==
  IF event = "all_doors_closed" THEN transitionTo(d, "checking", context)
  ELSE d

\* checking without its timeout case
handleEventInChecking_noTimeout(d, event, context) ==
  IF event = "motion_detected" THEN transitionTo(d, "occupied", context)
  ELSE IF event = "any_door_open" THEN transitionTo(d, "door_open", context)
  ELSE d

\* checking that takes a single sensor's timeout for the checking timeout
handleEventInChecking_motionTimeout(d, event, context) ==
  IF event = "motion_detected" THEN transitionTo(d, "occupied", context)
  ELSE IF event = "any_door_open" THEN transitionTo(d, "door_open", context)
  ELSE IF event = "timeout" \/ event = "motion_timeout"
  THEN transitionTo(d, "empty", context)
  ELSE d

handleEventInChecking(d, event, context) ==
  IF event = "motion_detected" THEN transitionTo(d, "occupied", context)
  ELSE IF event = "any_door_open" THEN transitionTo(d, "door_open", context)
  ELSE IF event = "timeout" THEN transitionTo(d, "empty", context)
  ELSE d

\* controller.registerEvent
registerEvent(d0, eventType, context) ==
  LET d == [d0 EXCEPT !.emitted = Append(@, [event |-> eventType, context |-> context])]
  IN CASE d.currentState = "empty" -> handleEventInEmpty(d, eventType, context)
       [] d.currentState = "occupied" -> handleEventInOccupied(d, eventType, context)
       [] d.currentState = "door_open" -> handleEventInDoorOpen(d, eventType, context)
       [] d.currentState = "checking" -> handleEventInChecking(d, eventType, context)
       [] OTHER -> d

\* setOccupancyState that sets the state without telling anyone
setOccupancyState_silent(d, state, context) == [d EXCEPT !.currentState = state]

\* controller.setOccupancyState
setOccupancyState(d, state, context) == transitionTo(d, state, context)

\* controller.forceState: bypasses the event table, same notification path
forceState(d, state, context) == transitionTo(d, state, context)

(***************************************************************************)
(* SensorRegistry / BooleanSensorRegistry / MotionSensorRegistry.          *)
(* A capabilityState Map is a function from the ids that have an entry to  *)
(* "true" or "false".                                                      *)
(***************************************************************************)
getCapabilityStates(capabilityState) == MapValues(capabilityState)

\* every instead of some
isAnyStateTrue_every(capabilityState) ==
  \A value \in getCapabilityStates(capabilityState) : value = "true"

isAnyStateTrue(capabilityState) ==
  \E value \in getCapabilityStates(capabilityState) : value = "true"

isAllStateTrue(capabilityState) ==
  \A value \in getCapabilityStates(capabilityState) : value = "true"

isAnyStateFalse(capabilityState) ==
  \E value \in getCapabilityStates(capabilityState) : value = "false"

\* closed as soon as one sensor reports false
isAllStateFalse_some(capabilityState) ==
  \E value \in getCapabilityStates(capabilityState) : value = "false"

isAllStateFalse(capabilityState) ==
  \A value \in getCapabilityStates(capabilityState) : value = "false"

\* the guard that skips null only
Accepted_anyType(value) == value # "null"

\* SensorRegistry.handleDeviceEvent's guard: null and values of another type
\* than boolean are skipped
Accepted(value) == value # "null" /\ value \in {"true", "false"}

\* SensorRegistry.handleDeviceEvent's write to the cache
cacheValue(capabilityState, deviceId, value) ==
  IF Accepted(value) THEN MapSet(capabilityState, deviceId, value) ELSE capabilityState

\* MotionSensorRegistry.getLearnedTimeout
getLearnedTimeout(learning, deviceId) ==
  IF deviceId \in DOMAIN learning THEN learning[deviceId].learnedTimeoutMs ELSE NotLearned

\* MotionSensorRegistry.getAllLearnedTimeouts followed by TimeoutStore.save,
\* which leaves the null entries out
savedTimeouts(learning) ==
  [id \in {x \in DOMAIN learning : learning[x].learnedTimeoutMs # NotLearned}
     |-> learning[id].learnedTimeoutMs]

Max(a, b) == IF a >= b THEN a ELSE b

\* learning that takes the duration as it is measured
trackTimeoutLearning_unclamped(learning, stored, deviceId, value, now) ==
  LET data == IF deviceId \in DOMAIN learning THEN learning[deviceId]
              ELSE [lastTrueTimestamp |-> NoTimestamp, learnedTimeoutMs |-> NotLearned]
      durationMs == now - data.lastTrueTimestamp
  IN IF value = "true"
     THEN [learning |-> MapSet(learning, deviceId, [data EXCEPT !.lastTrueTimestamp = now]),
           stored |-> stored]
     ELSE IF value = "false" /\ data.lastTrueTimestamp # NoTimestamp
     THEN IF data.learnedTimeoutMs = NotLearned \/ durationMs < data.learnedTimeoutMs
          THEN LET learned == MapSet(learning, deviceId,
                                [lastTrueTimestamp |-> NoTimestamp,
                                 learnedTimeoutMs |-> durationMs])
               IN [learning |-> learned, stored |-> savedTimeouts(learned)]
          ELSE [learning |-> MapSet(learning, deviceId,
                                [data EXCEPT !.lastTrueTimestamp = NoTimestamp]),
                stored |-> stored]
     ELSE [learning |-> MapSet(learning, deviceId, data), stored |-> stored]

\* learning that keeps the duration of the latest cycle
trackTimeoutLearning_latest(learning, stored, deviceId, value, now) ==
  LET data == IF deviceId \in DOMAIN learning THEN learning[deviceId]
              ELSE [lastTrueTimestamp |-> NoTimestamp, learnedTimeoutMs |-> NotLearned]
      durationMs == now - data.lastTrueTimestamp
      clampedDurationMs == Max(durationMs, MIN_LEARNED_TIMEOUT)
  IN IF value = "true"
     THEN [learning |-> MapSet(learning, deviceId, [data EXCEPT !.lastTrueTimestamp = now]),
           stored |-> stored]
     ELSE IF value = "false" /\ data.lastTrueTimestamp # NoTimestamp
     THEN LET learned == MapSet(learning, deviceId,
                           [lastTrueTimestamp |-> NoTimestamp,
                            learnedTimeoutMs |-> clampedDurationMs])
          IN [learning |-> learned, stored |-> savedTimeouts(learned)]
     ELSE [learning |-> MapSet(learning, deviceId, data), stored |-> stored]

\* learning that keeps the timestamp of the first true event of a window
trackTimeoutLearning_firstTrue(learning, stored, deviceId, value, now) ==
  LET data == IF deviceId \in DOMAIN learning THEN learning[deviceId]
              ELSE [lastTrueTimestamp |-> NoTimestamp, learnedTimeoutMs |-> NotLearned]
      durationMs == now - data.lastTrueTimestamp
      clampedDurationMs == Max(durationMs, MIN_LEARNED_TIMEOUT)
  IN IF value = "true"
     THEN [learning |-> MapSet(learning, deviceId,
                          IF data.lastTrueTimestamp = NoTimestamp
                          THEN [data EXCEPT !.lastTrueTimestamp = now] ELSE data),
           stored |-> stored]
     ELSE IF value = "false" /\ data.lastTrueTimestamp # NoTimestamp
     THEN IF data.learnedTimeoutMs = NotLearned \/ clampedDurationMs < data.learnedTimeoutMs
          THEN LET learned == MapSet(learning, deviceId,
                                [lastTrueTimestamp |-> NoTimestamp,
                                 learnedTimeoutMs |-> clampedDurationMs])
               IN [learning |-> learned, stored |-> savedTimeouts(learned)]
          ELSE [learning |-> MapSet(learning, deviceId,
                                [data EXCEPT !.lastTrueTimestamp = NoTimestamp]),
                stored |-> stored]
     ELSE [learning |-> MapSet(learning, deviceId, data), stored |-> stored]

\* MotionSensorRegistry.trackTimeoutLearning, now being Date.now(). The device
\* and the learner read the clock relative to the pending true event: they
\* pass TrueStamp with a true event and the time since then with a false
\* one. Returns the learning map and the persisted record.
trackTimeoutLearning(learning, stored, deviceId, value, now) ==
  LET data == IF deviceId \in DOMAIN learning THEN learning[deviceId]
              ELSE [lastTrueTimestamp |-> NoTimestamp, learnedTimeoutMs |-> NotLearned]
      durationMs == now - data.lastTrueTimestamp
      clampedDurationMs == Max(durationMs, MIN_LEARNED_TIMEOUT)
  IN IF value = "true"
     THEN [learning |-> MapSet(learning, deviceId, [data EXCEPT !.lastTrueTimestamp = now]),
           stored |-> stored]
     ELSE IF value = "false" /\ data.lastTrueTimestamp # NoTimestamp
     THEN IF data.learnedTimeoutMs = NotLearned \/ clampedDurationMs < data.learnedTimeoutMs
          THEN LET learned == MapSet(learning, deviceId,
                                [lastTrueTimestamp |-> NoTimestamp,
                                 learnedTimeoutMs |-> clampedDurationMs])
               IN [learning |-> learned, stored |-> savedTimeouts(learned)]
          ELSE [learning |-> MapSet(learning, deviceId,
                                [data EXCEPT !.lastTrueTimestamp = NoTimestamp]),
                stored |-> stored]
     ELSE [learning |-> MapSet(learning, deviceId, data), stored |-> stored]

\* MotionSensorRegistry.getMinLearnedTimeout's loop over the learning data of
\* ids, min being the least value seen so far
RECURSIVE minLearned(_, _, _)
minLearned(learning, ids, min) ==
  IF ids = {} THEN min
  ELSE LET id == CHOOSE x \in ids : TRUE
           learned == learning[id].learnedTimeoutMs
       IN minLearned(learning, ids \ {id},
                     IF learned # NotLearned /\ learned < min THEN learned ELSE min)

\* the least learned timeout whatever the default, the default when nothing
\* is learned
getMinLearnedTimeout_learnedFirst(learning, defaultMs) ==
  LET known == {x \in DOMAIN learning : learning[x].learnedTimeoutMs # NotLearned}
  IN IF known = {} THEN defaultMs
     ELSE LET first == CHOOSE x \in known : TRUE
          IN minLearned(learning, known, learning[first].learnedTimeoutMs)

\* MotionSensorRegistry.getMinLearnedTimeout
getMinLearnedTimeout(learning, defaultMs) == minLearned(learning, DOMAIN learning, defaultMs)

\* configs of the devices that learning data is held for
getDeviceConfigs_tracked(ids, learning) ==
  [id \in DOMAIN learning |->
     IF getLearnedTimeout(learning, id) # NotLearned
     THEN getLearnedTimeout(learning, id) ELSE motion_timeout]

\* MotionSensorRegistry.getDeviceConfigs: device id -> learned or default timeout
getDeviceConfigs(ids, learning) ==
  [id \in ids |->
     IF getLearnedTimeout(learning, id) # NotLearned
     THEN getLearnedTimeout(learning, id) ELSE motion_timeout]

\* removeDevice that forgets the device in memory only
removeDevice_memoryOnly(learning, stored, deviceId) ==
  [learning |-> MapDelete(learning, deviceId), stored |-> stored]

\* removeDevice that forgets every device
removeDevice_everyDevice(learning, stored, deviceId) ==
  [learning |-> EmptyMap, stored |-> EmptyMap]

\* MotionSensorRegistry.removeDevice: the entry is deleted from the learning
\* map, and TimeoutStore.remove loads the record, deletes the id and saves it
removeDevice(learning, stored, deviceId) ==
  [learning |-> MapDelete(learning, deviceId), stored |-> MapDelete(stored, deviceId)]

\* SensorRegistry.buildContext
buildContext(deviceId) == [deviceId |-> deviceId, timeoutSeconds |-> NoSeconds]

\* MotionSensorRegistry.buildContext
buildMotionContext(learning, deviceId) ==
  [deviceId |-> deviceId,
   timeoutSeconds |-> IF getLearnedTimeout(learning, deviceId) # NotLearned
                      THEN getLearnedTimeout(learning, deviceId) ELSE motion_timeout]

(***************************************************************************)
(* VirtualOccupancySensorDevice: the handlers wired to the registries.     *)
(***************************************************************************)

\* a door handler that reports closed at every closing door
handleContactSensorEvent_eachClose(d, doors, deviceId, value) ==
  IF value \notin {"true", "false"} THEN d
  ELSE IF value = "true"
  THEN registerEvent(d, "any_door_open", buildContext(deviceId))
  ELSE registerEvent(d, "all_doors_closed", buildContext(deviceId))

\* device.handleContactSensorEvent; doors is the contact registry's cache
\* after the event was stored
handleContactSensorEvent(d, doors, deviceId, value) ==
  IF value \notin {"true", "false"} THEN d
  ELSE IF value = "true"
  THEN registerEvent(d, "any_door_open", buildContext(deviceId))
  ELSE IF ~isAllStateFalse(doors) THEN d
  ELSE registerEvent(d, "all_doors_closed", buildContext(deviceId))

\* device.handleMotionSensorEvent
handleMotionSensorEvent(d, learning, deviceId, value) ==
  IF value \notin {"true", "false"} THEN d
  ELSE registerEvent(d, IF value = "true" THEN "motion_detected" ELSE "motion_timeout",
                     buildMotionContext(learning, deviceId))

\* a checking timeout that asks for every sensor to be active
onCheckingTimeout_allTrue(d, motion) ==
  LET context == [deviceId |-> "system", timeoutSeconds |-> motion_timeout]
  IN IF isAllStateTrue(motion)
     THEN registerEvent(d, "motion_detected", context)
     ELSE registerEvent(d, "timeout", context)

\* device.onCheckingTimeout; motion is the motion registry's cache
onCheckingTimeout(d, motion) ==
  LET context == [deviceId |-> "system", timeoutSeconds |-> motion_timeout]
  IN IF isAnyStateTrue(motion)
     THEN registerEvent(d, "motion_detected", context)
     ELSE registerEvent(d, "timeout", context)

\* device.triggerEventFromFlow
triggerEventFromFlow(d, eventType) ==
  registerEvent(d, eventType, [deviceId |-> "flow_action", timeoutSeconds |-> NoSeconds])

\* device.setStateFromFlow, the set_state_action flow card
setStateFromFlow(d, state) ==
  forceState(d, state, [deviceId |-> "flow_action", timeoutSeconds |-> NoSeconds])

\* device.handleCheckingState: a new registry built from getDeviceConfigs();
\* no timer is started here
handleCheckingState(ids, learning) ==
  NewCheckingSensorRegistry(getDeviceConfigs(ids, learning))

\* a barrier that opens at the first timer
handleDeviceEventCallback_first(reg, deviceId) ==
  LET triggered == reg.triggeredDevices \cup {deviceId}
  IN [reg |-> [reg EXCEPT !.triggeredDevices = triggered],
      fire |-> Cardinality(triggered) >= 1]

\* CheckingSensorRegistry.handleDeviceEventCallback up to its test: the device
\* is marked as triggered, and the registry's callback is due when every
\* listener has triggered
handleDeviceEventCallback(reg, deviceId) ==
  LET triggered == reg.triggeredDevices \cup {deviceId}
  IN [reg |-> [reg EXCEPT !.triggeredDevices = triggered],
      fire |-> Cardinality(triggered) >= Cardinality(DOMAIN reg.listeners)]

\* CheckingSensorRegistry.handleDeviceEventCallback after the callback returned
afterDeviceEventCallback(reg) ==
  removeAllListeners([reg EXCEPT !.triggeredDevices = {}])

\* the timer of one VirtualCheckingSensor has fired
timerFired(reg, deviceId) ==
  [reg EXCEPT !.listeners[deviceId].checkTimeout = NoTimer]

\* a timer may fire when its time has run out
TimerDue(reg, deviceId) ==
  /\ deviceId \in DOMAIN reg.listeners
  /\ reg.listeners[deviceId].checkTimeout = 0

\* one unit of time passes for the timers of a registry
tickRegistry(reg) ==
  [reg EXCEPT !.listeners =
     [id \in DOMAIN reg.listeners |->
        IF reg.listeners[id].checkTimeout > 0
        THEN [reg.listeners[id] EXCEPT !.checkTimeout = @ - 1]
        ELSE reg.listeners[id]]]

(***************************************************************************)
(* The state machine of the device.                                        *)
(***************************************************************************)
\* what a synchronous call chain starts from
Dev == [currentState |-> currentState,
        occupancy_state |-> occupancy_state,
        checkingSensorRegistry |-> checkingSensorRegistry,
        stale |-> stale,
        pendingStateChanges |-> pendingStateChanges,
        notified |-> <<>>,
        emitted |-> <<>>]

\* the record of a step: the operation and its input, the state it started
\* from, whether a timer of the device's checking registry was pending then
\* (inflight), the door's cached value then (prev), and what the step did
Op(name, id, value, d, completed) ==
  [op |-> name, from |-> currentState, id |-> id, value |-> value,
   inflight |-> IF checkingSensorRegistry = NoReg THEN FALSE
                ELSE HasPendingTimer(checkingSensorRegistry),
   prev |-> IF id \in DOMAIN contactState THEN contactState[id] ELSE "",
   emitted |-> d.emitted, notified |-> d.notified, completed |-> completed]

\* settings with one door and one motion sensor, under which one more
\* suspended onStateChange is explored
SmallConfigurations ==
  {[door_sensors |-> {"d1"}, motion_sensors |-> {"m1"},
    auto_learn_timeout |-> FALSE, active_on_occupied |-> TRUE,
    active_on_empty |-> b, active_on_door_open |-> FALSE,
    active_on_checking |-> FALSE] : b \in BOOLEAN}

\* how many onStateChange invocations may be suspended at once
PendingLimit == IF settings \in SmallConfigurations THEN MaxPending + 1 ELSE MaxPending

\* the call chain's writes become the next state
Commit(d) ==
  /\ Len(d.pendingStateChanges) <= PendingLimit
  /\ Len(d.stale) <= MaxStale
  /\ stale' = d.stale
  /\ currentState' = d.currentState
  /\ occupancy_state' = d.occupancy_state
  /\ checkingSensorRegistry' = d.checkingSensorRegistry
  /\ pendingStateChanges' = d.pendingStateChanges

\* the sensor choices of the settings that are explored
Configurations ==
  {[door_sensors |-> {"d1", "d2"}, motion_sensors |-> {"m1"},
    auto_learn_timeout |-> FALSE, active_on_occupied |-> TRUE,
    active_on_empty |-> FALSE, active_on_door_open |-> TRUE,
    active_on_checking |-> TRUE],
   [door_sensors |-> {"d1"}, motion_sensors |-> {"m1", "m2"},
    auto_learn_timeout |-> TRUE, active_on_occupied |-> TRUE,
    active_on_empty |-> FALSE, active_on_door_open |-> TRUE,
    active_on_checking |-> TRUE]}

\* what an earlier run of the device may have persisted
PersistedTimeouts(ids) ==
  UNION {[S -> 1..MaxDuration] : S \in SUBSET ids}

\* a stored value that is not a number
NotANumber == -2

\* what the provider may hold as the timeout of a device
StoredValues == {NotANumber, -1, 0} \cup (1..MaxDuration)

\* what the provider may hold under the store's key: nothing, a value that is
\* no object, an object of another version, an object of STORE_VERSION
Envelopes == {"absent", "corrupt", "stale", "current"}

\* the provider's calls
Calls == {"get", "set", "unset"}

\* the load that keeps every stored entry
loadTimeouts_unfiltered(stored) ==
  [id \in DOMAIN stored |->
     [lastTrueTimestamp |-> NoTimestamp, learnedTimeoutMs |-> stored[id]]]

\* TimeoutStore.load's loop: every stored entry that is a number above zero
\* becomes learning data with no pending timestamp
loadTimeouts(stored) ==
  [id \in {x \in DOMAIN stored : stored[x] # NotANumber /\ stored[x] > 0} |->
     [lastTrueTimestamp |-> NoTimestamp, learnedTimeoutMs |-> stored[id]]]

\* the load that takes the data of any object
VersionedStore_load_anyVersion(envelope, stored, failing) ==
  IF "get" \in failing THEN [found |-> FALSE, data |-> EmptyMap, raised |-> FALSE]
  ELSE IF envelope = "absent" THEN [found |-> FALSE, data |-> EmptyMap, raised |-> FALSE]
  ELSE IF envelope = "corrupt"
  THEN [found |-> FALSE, data |-> EmptyMap, raised |-> FALSE]
  ELSE [found |-> TRUE, data |-> stored, raised |-> FALSE]

\* VersionedStore.load of what the provider holds, envelope and data, while
\* the calls in failing throw: a throw is caught, and nothing, a value that
\* is no object and another version yield no data
VersionedStore_load(envelope, stored, failing) ==
  IF "get" \in failing THEN [found |-> FALSE, data |-> EmptyMap, raised |-> FALSE]
  ELSE IF envelope = "absent" THEN [found |-> FALSE, data |-> EmptyMap, raised |-> FALSE]
  ELSE IF envelope = "corrupt" \/ envelope # "current"
  THEN [found |-> FALSE, data |-> EmptyMap, raised |-> FALSE]
  ELSE [found |-> TRUE, data |-> stored, raised |-> FALSE]

\* TimeoutStore.load: no data is an empty map
TimeoutStore_load(envelope, stored, failing) ==
  LET loaded == VersionedStore_load(envelope, stored, failing)
  IN IF ~loaded.found THEN EmptyMap ELSE loadTimeouts(loaded.data)

\* a CheckingSensorRegistry on its own and the record of its current run:
\* ids are the sensors armed by the last startChecking, fired those whose
\* timer has fired since, elapsed the time since, completions the number of
\* calls of the registry's callback since, completedAt the elapsed time of the
\* last such call, straggler whether stopChecking found a timer already due
NewRun(configs) ==
  [reg |-> NewCheckingSensorRegistry(configs), started |-> FALSE, stopped |-> FALSE,
   straggler |-> FALSE, ids |-> {}, fired |-> {}, elapsed |-> 0, completions |-> 0,
   completedAt |-> NoTimer]

NoRun == NewRun(EmptyMap)

\* the motion sensor ids a registry on its own may be given
LrIds == {"m1", "m2"}

\* no true->false cycle completed
NoCycle == -1

\* new MotionSensorRegistry(..., enableLearning, deviceIds, ..., timeoutStore)
\* over what the provider holds, envelope and stored, while the calls in
\* failing throw: the learned timeouts are loaded and the addListener calls
\* have not resolved yet; resolvable are the devices that exist and have the
\* capability, and failing the calls of the provider that throw during the
\* step that is being taken. With it the record of what the registry has been through:
\* shortest is the shortest true->false duration completed per device since
\* its data was last removed, forgotten the devices whose learned timeout was
\* removed and that have completed no cycle since, dropped the devices the
\* last step removed, cycle the duration of the cycle the last step
\* completed, created and destroyed the listeners the last step made and
\* destroyed, forwarded the events the last step handed to onDeviceEvent,
\* calls how many times it called onDeviceEvent,
\* logged whether it logged an error of the store, rejected whether a call of
\* the store rejected, raised whether the load threw, op the last step.
NewLearner(enableLearning, deviceIds, resolvable, envelope, stored, failing) ==
  [enableLearning |-> enableLearning, deviceIds |-> deviceIds, listeners |-> {},
   adding |-> deviceIds, capabilityState |-> EmptyMap, resolvable |-> resolvable,
   timeoutLearning |-> TimeoutStore_load(envelope, stored, failing),
   envelope |-> envelope, stored |-> stored, failing |-> {},
   shortest |-> [id \in LrIds |-> NoCycle], forgotten |-> {}, dropped |-> {},
   cycle |-> NoCycle, created |-> {}, destroyed |-> {}, forwarded |-> {},
   calls |-> 0,
   logged |-> "get" \in failing, rejected |-> FALSE,
   raised |-> VersionedStore_load(envelope, stored, failing).raised, op |-> "new"]

NoLearner == NewLearner(FALSE, {}, {}, "absent", EmptyMap, {})

\* no learning data is measured on its own
NoMeasure == [none |-> TRUE]

\* the device after onInit: the registries are constructed and their
\* addListener calls have not resolved yet
DeviceInit(config) ==
  /\ settings = config
  /\ currentState = "empty"
  /\ occupancy_state = "empty"
  /\ alarm_motion = FALSE
  /\ deleted = FALSE
  /\ checkingSensorRegistry = NoReg
  /\ stale = <<>>
  /\ pendingStateChanges = <<>>
  /\ contactState = EmptyMap
  /\ contactListeners = {}
  /\ contactAdding = settings.door_sensors
  /\ motionState = EmptyMap
  /\ motionListeners = {}
  /\ motionAdding = settings.motion_sensors
  /\ storedTimeouts \in PersistedTimeouts(settings.motion_sensors)
  /\ timeoutLearning = loadTimeouts(storedTimeouts)
  /\ last = [op |-> "onInit", from |-> "empty", id |-> "", value |-> "",
             inflight |-> FALSE, prev |-> "",
             emitted |-> <<>>, notified |-> <<>>, completed |-> 0]

Init ==
  /\ measure = NoMeasure
  /\ rv = NoRun
  /\ lr = NoLearner
  /\ \E config \in Configurations : DeviceInit(config)

\* contact registry: addListener(id) resolves. Either the device is missing or
\* lacks the capability, or the listener is registered and the handler is fed
\* the device's current value.
ContactAddListener(id, found, value) ==
  /\ id \in contactAdding
  /\ contactAdding' = contactAdding \ {id}
  /\ IF found
     THEN LET doors == cacheValue(contactState, id, value)
              d == IF Accepted(value)
                   THEN handleContactSensorEvent(Dev, doors, id, value) ELSE Dev
          IN /\ contactState' = doors
             /\ contactListeners' = contactListeners \cup {id}
             /\ Commit(d)
             /\ last' = Op("addContactListener", id, value, d, 0)
     ELSE /\ UNCHANGED <<contactState, contactListeners, currentState, occupancy_state,
                         checkingSensorRegistry, stale, pendingStateChanges>>
          /\ last' = Op("addContactListener", id, "missing", Dev, 0)
  /\ UNCHANGED <<rv, lr, measure, deleted, alarm_motion, settings, motionState, motionListeners, motionAdding,
                 timeoutLearning, storedTimeouts>>

\* a door sensor's capability listener delivers a value
ContactSensorEvent(id, value) ==
  /\ id \in contactListeners
  /\ LET doors == cacheValue(contactState, id, value)
         d == IF Accepted(value)
              THEN handleContactSensorEvent(Dev, doors, id, value) ELSE Dev
     IN /\ contactState' = doors
        /\ Commit(d)
        /\ last' = Op("contactSensorEvent", id, value, d, 0)
  /\ UNCHANGED <<rv, lr, measure, deleted, alarm_motion, settings, contactListeners, contactAdding, motionState,
                 motionListeners, motionAdding, timeoutLearning, storedTimeouts>>

\* MotionSensorRegistry's wrappedOnDeviceEvent: learning when it is enabled,
\* then the device
wrappedOnDeviceEvent(d, learning, stored, deviceId, value, now) ==
  LET tracked == IF settings.auto_learn_timeout
                 THEN trackTimeoutLearning(learning, stored, deviceId, value, now)
                 ELSE [learning |-> learning, stored |-> stored]
  IN [learning |-> tracked.learning, stored |-> tracked.stored,
      d |-> handleMotionSensorEvent(d, tracked.learning, deviceId, value)]

MotionAddListener(id, found, value) ==
  /\ id \in motionAdding
  /\ motionAdding' = motionAdding \ {id}
  /\ IF found /\ Accepted(value)
     THEN LET w == wrappedOnDeviceEvent(Dev, timeoutLearning, storedTimeouts, id, value,
                                        TrueStamp)
          IN /\ motionState' = cacheValue(motionState, id, value)
             /\ motionListeners' = motionListeners \cup {id}
             /\ timeoutLearning' = w.learning
             /\ storedTimeouts' = w.stored
             /\ Commit(w.d)
             /\ last' = Op("addMotionListener", id, value, w.d, 0)
     ELSE /\ motionListeners' = IF found THEN motionListeners \cup {id} ELSE motionListeners
          /\ UNCHANGED <<motionState, timeoutLearning, storedTimeouts, currentState,
                         occupancy_state, checkingSensorRegistry, stale, pendingStateChanges>>
          /\ last' = Op("addMotionListener", id, IF found THEN value ELSE "missing", Dev, 0)
  /\ UNCHANGED <<rv, lr, measure, deleted, alarm_motion, settings, contactState, contactListeners, contactAdding>>

\* a motion sensor's capability listener delivers a value
MotionSensorEvent(id, value, now) ==
  /\ id \in motionListeners
  /\ IF Accepted(value)
     THEN LET w == wrappedOnDeviceEvent(Dev, timeoutLearning, storedTimeouts, id, value, now)
          IN /\ motionState' = cacheValue(motionState, id, value)
             /\ timeoutLearning' = w.learning
             /\ storedTimeouts' = w.stored
             /\ Commit(w.d)
             /\ last' = Op("motionSensorEvent", id, value, w.d, 0)
     ELSE /\ UNCHANGED <<motionState, timeoutLearning, storedTimeouts, currentState,
                         occupancy_state, checkingSensorRegistry, stale, pendingStateChanges>>
          /\ last' = Op("motionSensorEvent", id, value, Dev, 0)
  /\ UNCHANGED <<rv, lr, measure, deleted, alarm_motion, settings, contactState, contactListeners, contactAdding,
                 motionListeners, motionAdding>>

\* the event cards of the driver: door_opened_action, door_closed_action,
\* motion_detected_action and reset_state_action
FlowEvents == {"any_door_open", "all_doors_closed", "motion_detected", "timeout"}

\* a flow action card triggers an event by hand
TriggerEventFromFlow(eventType) ==
  /\ ~deleted
  /\ LET d == triggerEventFromFlow(Dev, eventType)
     IN /\ Commit(d)
        /\ last' = Op("triggerEventFromFlow", "flow_action", eventType, d, 0)
  /\ UNCHANGED <<rv, lr, measure, deleted, alarm_motion, settings, contactState, contactListeners, contactAdding, motionState,
                 motionListeners, motionAdding, timeoutLearning, storedTimeouts>>

\* the set_state_action flow card forces a state
SetStateFromFlow(state) ==
  /\ ~deleted
  /\ LET d == setStateFromFlow(Dev, state)
     IN /\ Commit(d)
        /\ last' = Op("setStateFromFlow", "flow_action", state, d, 0)
  /\ UNCHANGED <<rv, lr, measure, deleted, alarm_motion, settings, contactState, contactListeners, contactAdding, motionState,
                 motionListeners, motionAdding, timeoutLearning, storedTimeouts>>

RemoveAt(seq, i) == SubSeq(seq, 1, i - 1) \o SubSeq(seq, i + 1, Len(seq))

\* the alarm_motion value onStateChange picks for a state
alarmState(s, state) ==
  CASE state = "occupied" -> s.active_on_occupied
    [] state = "empty" -> s.active_on_empty
    [] state = "door_open" -> s.active_on_door_open
    [] state = "checking" -> s.active_on_checking
    [] OTHER -> FALSE

\* device.onStateChange resumes after its awaits: for checking it runs
\* handleCheckingState, which replaces the device's registry; then it
\* publishes alarm_motion
ResumeStateChange(i) ==
  /\ i \in 1..Len(pendingStateChanges)
  /\ pendingStateChanges' = RemoveAt(pendingStateChanges, i)
  /\ IF pendingStateChanges[i] = "checking"
     THEN /\ checkingSensorRegistry' = handleCheckingState(settings.motion_sensors, timeoutLearning)
          /\ stale' = IF checkingSensorRegistry = NoReg THEN stale
                      ELSE release(stale, checkingSensorRegistry)
          /\ Len(stale') <= MaxStale
     ELSE UNCHANGED <<checkingSensorRegistry, stale>>
  /\ alarm_motion' = alarmState(settings, pendingStateChanges[i])
  /\ last' = Op("resumeStateChange", "", pendingStateChanges[i], Dev, 0)
  /\ UNCHANGED <<rv, lr, measure, deleted, settings, currentState, occupancy_state, contactState,
                 contactListeners, contactAdding, motionState, motionListeners,
                 motionAdding, timeoutLearning, storedTimeouts>>

\* CheckingSensorRegistry.startChecking() on the device's registry. The
\* operation is public; device.handleCheckingState does not call it.
StartChecking ==
  /\ checkingSensorRegistry # NoReg
  /\ DOMAIN checkingSensorRegistry.listeners # {}
  /\ ~HasPendingTimer(checkingSensorRegistry)
  /\ checkingSensorRegistry.triggeredDevices = {}
  /\ checkingSensorRegistry' = startChecking(checkingSensorRegistry)
  /\ last' = Op("startChecking", "", "", Dev, 0)
  /\ UNCHANGED <<rv, lr, measure, deleted, alarm_motion, settings, currentState, occupancy_state, stale, pendingStateChanges, contactState,
                 contactListeners, contactAdding, motionState, motionListeners,
                 motionAdding, timeoutLearning, storedTimeouts>>

\* the registries whose timers run: 0 is the device's, i >= 1 is stale[i]
Registry(i) == IF i = 0 THEN checkingSensorRegistry ELSE stale[i]

\* a timer fires: VirtualCheckingSensor's callback, handleDeviceEventCallback
\* and, when all have triggered, onCheckingTimeout
TimerFire(i, id) ==
  /\ i \in 0..Len(stale)
  /\ Registry(i) # NoReg
  /\ TimerDue(Registry(i), id)
  /\ LET cb == handleDeviceEventCallback(timerFired(Registry(i), id), id)
         done == IF cb.fire THEN afterDeviceEventCallback(cb.reg) ELSE cb.reg
         d0 == IF i = 0
               THEN [Dev EXCEPT !.checkingSensorRegistry = cb.reg]
               ELSE [Dev EXCEPT !.stale = IF HasPendingTimer(done)
                                          THEN [stale EXCEPT ![i] = done]
                                          ELSE RemoveAt(stale, i)]
         d1 == IF cb.fire THEN onCheckingTimeout(d0, motionState) ELSE d0
         d2 == IF i = 0 /\ d1.checkingSensorRegistry # NoReg
               THEN [d1 EXCEPT !.checkingSensorRegistry = done]
               ELSE d1
     IN /\ Commit(d2)
        /\ last' = Op("timerFire", id, "", d2, IF cb.fire THEN 1 ELSE 0)
  /\ UNCHANGED <<rv, lr, measure, deleted, alarm_motion, settings, contactState, contactListeners, contactAdding, motionState,
                 motionListeners, motionAdding, timeoutLearning, storedTimeouts>>

AllRegistries ==
  (IF checkingSensorRegistry = NoReg THEN {} ELSE {checkingSensorRegistry})
  \cup {stale[i] : i \in 1..Len(stale)}

\* time passes by one unit, unless a timer is due
Tick ==
  /\ \A reg \in AllRegistries : \A id \in DOMAIN reg.listeners : ~TimerDue(reg, id)
  /\ \E reg \in AllRegistries : HasPendingTimer(reg)
  /\ checkingSensorRegistry' = IF checkingSensorRegistry = NoReg THEN NoReg
                               ELSE tickRegistry(checkingSensorRegistry)
  /\ stale' = [i \in 1..Len(stale) |-> tickRegistry(stale[i])]
  /\ last' = Op("tick", "", "", Dev, 0)
  /\ UNCHANGED <<rv, lr, measure, deleted, alarm_motion, settings, currentState, occupancy_state, pendingStateChanges, contactState,
                 contactListeners, contactAdding, motionState, motionListeners,
                 motionAdding, timeoutLearning, storedTimeouts>>

Next ==
  \/ \E id \in DoorIds, found \in BOOLEAN, value \in EventValues :
       ContactAddListener(id, found, value)
  \/ \E id \in DoorIds, value \in EventValues : ContactSensorEvent(id, value)
  \/ \E id \in MotionIds, found \in BOOLEAN, value \in EventValues :
       MotionAddListener(id, found, value)
  \/ \E id \in MotionIds, value \in EventValues :
       \E now \in IF value = "false" THEN 0..MaxDuration ELSE {TrueStamp} :
         MotionSensorEvent(id, value, now)
  \/ \E eventType \in FlowEvents : TriggerEventFromFlow(eventType)
  \/ \E state \in OccupancyState : SetStateFromFlow(state)
  \/ \E i \in 1..(MaxPending + 1) : ResumeStateChange(i)
  \/ StartChecking
  \/ \E i \in 0..MaxStale, id \in MotionIds : TimerFire(i, id)
  \/ Tick

Spec == Init /\ [][Next]_vars

(***************************************************************************)
(* The transition table of the occupancy state machine, as the             *)
(* specification gives it: state x event -> new state.                     *)
(***************************************************************************)
TransitionTable ==
  (<<"empty", "any_door_open">> :> "door_open")
  @@ (<<"empty", "motion_detected">> :> "occupied")
  @@ (<<"occupied", "any_door_open">> :> "door_open")
  @@ (<<"door_open", "all_doors_closed">> :> "checking")
  @@ (<<"checking", "any_door_open">> :> "door_open")
  @@ (<<"checking", "motion_detected">> :> "occupied")
  @@ (<<"checking", "timeout">> :> "empty")

Listed(S, E) == <<S, E>> \in DOMAIN TransitionTable

\* trigger contexts an event may carry
Contexts ==
  {buildContext(id) : id \in DoorIds}
  \cup {buildMotionContext(timeoutLearning, id) : id \in MotionIds}
  \cup {[deviceId |-> "system", timeoutSeconds |-> motion_timeout],
        [deviceId |-> "flow_action", timeoutSeconds |-> NoSeconds]}

\* the last step made one registerEvent call, of event E
Registered(E) == Len(last.emitted) = 1 /\ last.emitted[1].event = E

\* C1: in every state S, registerEvent(E) for an event E the table does not
\* list for S leaves the state S and invokes no state-change callback, both
\* for every event that could be registered now and for the one the last
\* step did register.
C1_UnlistedEventIsNoOp ==
  /\ \A E \in EventType, context \in Contexts :
       ~Listed(currentState, E) =>
         LET d == registerEvent(Dev, E, context)
         IN d.currentState = currentState /\ d.notified = <<>>
  /\ \A E \in EventType :
       (Registered(E) /\ ~Listed(last.from, E)) =>
         currentState = last.from /\ last.notified = <<>>

\* motion was reported while the door stood open, and nothing happened
C1_Witness ==
  /\ Registered("motion_detected")
  /\ last.from = "door_open"
  /\ currentState = "door_open"
  /\ last.notified = <<>>

C3_SelfTransitionIsNoOp ==
  /\ \A context \in Contexts :
       /\ setOccupancyState(Dev, currentState, context) = Dev
       /\ forceState(Dev, currentState, context) = Dev
       /\ transitionTo(Dev, currentState, context) = Dev
  /\ (last.op = "setStateFromFlow" /\ last.value = last.from) =>
       currentState = last.from /\ last.notified = <<>>

\* the set-state card asked for checking while the machine was checking
C3_Witness ==
  /\ last.op = "setStateFromFlow"
  /\ last.value = "checking"
  /\ last.from = "checking"
  /\ currentState = "checking"
  /\ last.notified = <<>>

DoorReported(value) ==
  /\ last.op \in {"contactSensorEvent", "addContactListener"}
  /\ last.value = value

\* C4: a door sensor event with value false registers all_doors_closed exactly
\* when every cached door value is false at that moment; otherwise nothing is
\* registered and the state stays as it was.
C4_AllDoorsClosedIffAllFalse ==
  DoorReported("false") =>
    /\ Registered("all_doors_closed") <=> isAllStateFalse(contactState)
    /\ ~isAllStateFalse(contactState) =>
         last.emitted = <<>> /\ currentState = last.from

\* one of two doors closed while the other is cached open: still door_open
C4_Witness ==
  /\ DoorReported("false")
  /\ last.from = "door_open"
  /\ currentState = "door_open"
  /\ last.emitted = <<>>
  /\ \E a, b \in DOMAIN contactState :
       contactState[a] = "false" /\ contactState[b] = "true"

\* the last step was the timer that completed the rendezvous
Completed == last.op = "timerFire" /\ last.completed = 1

MotionReported(value) ==
  /\ last.op \in {"motionSensorEvent", "addMotionListener"}
  /\ last.value = value

C8_OccupiedHeldUntilDoorOpens ==
  /\ (last.from = "occupied"
        /\ last.op \in {"motionSensorEvent", "addMotionListener", "timerFire", "tick"}) =>
       currentState = "occupied"
  /\ (last.from = "occupied" /\ currentState # "occupied") =>
       \/ DoorReported("true") /\ currentState = "door_open"
       \/ last.op \in {"triggerEventFromFlow", "setStateFromFlow"}
  /\ currentState = "occupied" =>
       /\ \A id \in MotionIds, value \in {"true", "false"} :
            handleMotionSensorEvent(Dev, timeoutLearning, id, value).currentState
              = "occupied"
       /\ onCheckingTimeout(Dev, motionState).currentState = "occupied"

\* every motion sensor has reported false and the room is still occupied
C8_Witness ==
  /\ last.from = "occupied"
  /\ MotionReported("false")
  /\ Registered("motion_timeout")
  /\ isAllStateFalse(motionState)
  /\ currentState = "occupied"

\* the last notification of the last step is for the given state
Notified(state) ==
  /\ last.notified # <<>>
  /\ last.notified[Len(last.notified)].state = state

EnteredChecking == last.op = "resumeStateChange" /\ last.value = "checking"

\* C12: once the device has handled the notification for checking, it holds a
\* checking registry built from getDeviceConfigs() with nothing triggered and
\* one countdown running per configured motion sensor, at that sensor's
\* learned or default timeout.
C12_EnteringCheckingStartsTimers ==
  EnteredChecking =>
    /\ checkingSensorRegistry # NoReg
    /\ checkingSensorRegistry.deviceConfigs =
         getDeviceConfigs(settings.motion_sensors, timeoutLearning)
    /\ checkingSensorRegistry.triggeredDevices = {}
    /\ \A id \in settings.motion_sensors :
         /\ id \in DOMAIN checkingSensorRegistry.listeners
         /\ checkingSensorRegistry.listeners[id].checkTimeout =
              getDeviceConfigs(settings.motion_sensors, timeoutLearning)[id]

\* what the platform schedules by itself: the continuations of the awaits,
\* the timers that are due and the passing of time. Sensor events, flow cards
\* and calls of startChecking() are up to the environment.
Fairness ==
  /\ WF_vars(\E i \in 1..MaxPending : ResumeStateChange(i))
  /\ WF_vars(\E i \in 0..MaxStale, id \in MotionIds : TimerFire(i, id))
  /\ WF_vars(Tick)

SpecLive == Init /\ [][Next]_vars /\ Fairness

\* a sensor or a flow card has acted
ExternalEvent ==
  last.op \in {"contactSensorEvent", "addContactListener", "motionSensorEvent",
               "addMotionListener", "triggerEventFromFlow", "setStateFromFlow"}

\* C13: once the device has entered checking, the state eventually becomes
\* empty or occupied, unless a sensor event or a flow card comes in between.
C13_CheckingResolves ==
  (EnteredChecking /\ currentState = "checking")
    ~> (currentState \in {"empty", "occupied"} \/ ExternalEvent)

\* the last step was a door closing: a door cached open reported false
DoorClosed == DoorReported("false") /\ last.prev = "true"

\* some door is cached open
SomeDoorOpen == \E id \in DOMAIN contactState : contactState[id] = "true"

C16_DoorOpenGivesDoorOpen ==
  /\ DoorReported("true") =>
       /\ Registered("any_door_open")
       /\ last.emitted[1].context = buildContext(last.id)
       /\ currentState = "door_open"
  /\ \A id \in DoorIds :
       handleContactSensorEvent(Dev, MapSet(contactState, id, "true"), id, "true").currentState
         = "door_open"

\* a door opened while the room was occupied
C16_Witness ==
  /\ DoorReported("true")
  /\ last.op = "contactSensorEvent"
  /\ last.from = "occupied"
  /\ Registered("any_door_open")
  /\ Notified("door_open")
  /\ currentState = "door_open"

RvIds == {"m1", "m2", "m3"}
MaxElapsed == MaxDuration + 1
MaxCompletions == 2

RvConfigs == UNION {[S -> 1..MaxDuration] : S \in SUBSET RvIds}

deviceVarsButMeasure ==
  <<settings, currentState, occupancy_state, alarm_motion, deleted,
    checkingSensorRegistry, stale, pendingStateChanges, contactState,
    contactListeners, contactAdding, motionState, motionListeners, motionAdding,
    timeoutLearning, storedTimeouts, last>>

deviceVars == <<measure, settings, currentState, occupancy_state, alarm_motion, deleted,
                checkingSensorRegistry, stale,
                pendingStateChanges, contactState, contactListeners, contactAdding,
                motionState, motionListeners, motionAdding, timeoutLearning,
                storedTimeouts, last>>

InitRendezvous ==
  /\ measure = NoMeasure
  /\ rv \in {NewRun(configs) : configs \in RvConfigs}
  /\ lr = NoLearner
  /\ DeviceInit([door_sensors |-> {}, motion_sensors |-> {},
                 auto_learn_timeout |-> FALSE])

RvStartChecking ==
  /\ rv' = [rv EXCEPT !.reg = startChecking(@), !.started = TRUE, !.stopped = FALSE,
                      !.straggler = FALSE, !.ids = DOMAIN rv.reg.listeners,
                      !.fired = {}, !.elapsed = 0, !.completions = 0,
                      !.completedAt = NoTimer]
  /\ UNCHANGED <<lr, deviceVars>>

RvStopChecking ==
  /\ rv.started
  /\ rv' = [rv EXCEPT !.reg = stopChecking(@), !.stopped = TRUE,
                      !.straggler = \E id \in DOMAIN rv.reg.listeners :
                                       TimerDue(rv.reg, id)]
  /\ UNCHANGED <<lr, deviceVars>>

\* a timer fires: handleDeviceEventCallback, and the registry's callback when
\* all have triggered
RvTimerFire(id) ==
  /\ TimerDue(rv.reg, id)
  /\ LET cb == handleDeviceEventCallback(timerFired(rv.reg, id), id)
     IN rv' = IF cb.fire
              THEN [rv EXCEPT !.reg = afterDeviceEventCallback(cb.reg),
                              !.fired = @ \cup {id},
                              !.completions = IF @ < MaxCompletions THEN @ + 1 ELSE @,
                              !.completedAt = rv.elapsed]
              ELSE [rv EXCEPT !.reg = cb.reg, !.fired = @ \cup {id}]
  /\ UNCHANGED <<lr, deviceVars>>

RvTick ==
  /\ rv.started
  /\ rv.elapsed < MaxElapsed
  /\ \A id \in DOMAIN rv.reg.listeners : ~TimerDue(rv.reg, id)
  /\ rv' = [rv EXCEPT !.reg = tickRegistry(@), !.elapsed = @ + 1]
  /\ UNCHANGED <<lr, deviceVars>>

NextRendezvous ==
  \/ RvStartChecking
  \/ RvStopChecking
  \/ \E id \in RvIds : RvTimerFire(id)
  \/ RvTick

SpecRendezvous == InitRendezvous /\ [][NextRendezvous]_vars

\* the longest timeout among the sensors armed by the run
MaxTimeout(run) ==
  CHOOSE t \in {run.reg.deviceConfigs[id] : id \in run.ids} :
    \A id \in run.ids : run.reg.deviceConfigs[id] <= t

\* C9: in a run started with n >= 1 timeouts and not stopped, the registry's
\* callback is invoked at most once, it has been invoked exactly when every
\* armed sensor's timer has fired, that happened when the longest timeout had
\* elapsed, and as long as it has not happened no more time than that has
\* elapsed.
C9_CallbackOnceAtLastTimer ==
  (rv.started /\ ~rv.stopped /\ rv.ids # {}) =>
    /\ rv.completions <= 1
    /\ rv.completions = 1 <=> rv.fired = rv.ids
    /\ rv.completions = 1 => rv.completedAt = MaxTimeout(rv)
    /\ rv.completions = 0 => rv.elapsed <= MaxTimeout(rv)

\* three sensors with different timeouts: completed when the longest elapsed
C9_Witness ==
  /\ rv.started /\ ~rv.stopped
  /\ rv.ids = RvIds
  /\ \E a, b \in rv.ids : rv.reg.deviceConfigs[a] < rv.reg.deviceConfigs[b]
  /\ rv.completions = 1
  /\ rv.completedAt = MaxDuration

\* C10: once stopChecking has been called on a run, the registry's callback
\* is not invoked for that run any more, whether a timer was still to fire or
\* was already due when the run was stopped.
C10_NoCallbackAfterStop ==
  [][(rv.stopped /\ rv'.stopped) => rv'.completions = rv.completions]_vars

\* a run was stopped while a timer was due, and all its time has passed
\* without a callback
C10_Witness ==
  /\ rv.stopped
  /\ rv.straggler
  /\ rv.ids = RvIds
  /\ rv.completions = 0
  /\ rv.elapsed = MaxElapsed

\* C14: a registry built for no motion sensor at all invokes its callback as
\* soon as startChecking() is called, exactly once.
C14_NoSensorsCompletesAtOnce ==
  (rv.started /\ ~rv.stopped /\ DOMAIN rv.reg.deviceConfigs = {}) =>
    rv.completions = 1

(***************************************************************************)
(* The timeout learner on its own: a MotionSensorRegistry with its         *)
(* TimeoutStore, fed sensor values, reconfigured and restarted by its      *)
(* owner.                                                                  *)
(***************************************************************************)
\* what an addListener call may find: no such device, or its current value
Outcomes == {"missing"} \cup EventValues

\* what trackTimeoutLearning is handed as the persisted record, to tell
\* whether it saved
Unsaved == [x \in {"unsaved"} |-> NotLearned]

\* the step begins: nothing made, destroyed, forwarded, logged or rejected
\* yet, while the calls in failing throw
Begin(l, failing) ==
  [l EXCEPT !.failing = failing, !.dropped = {}, !.cycle = NoCycle, !.created = {},
            !.destroyed = {}, !.forwarded = {}, !.calls = 0, !.logged = FALSE,
            !.rejected = FALSE]

\* save whose promise rejects when the provider's does
VersionedStore_save_uncaught(l, data) ==
  IF "set" \in l.failing THEN [l EXCEPT !.rejected = TRUE]
  ELSE [l EXCEPT !.envelope = "current", !.stored = data]

\* VersionedStore.save: the data goes to the provider under STORE_VERSION; a
\* throw of the provider is caught and logged
VersionedStore_save(l, data) ==
  IF "set" \in l.failing THEN [l EXCEPT !.logged = TRUE]
  ELSE [l EXCEPT !.envelope = "current", !.stored = data]

\* VersionedStore.clear: the key is unset; a throw of the provider is caught
\* and logged
VersionedStore_clear(l) ==
  IF "unset" \in l.failing THEN [l EXCEPT !.logged = TRUE]
  ELSE [l EXCEPT !.envelope = "absent", !.stored = EmptyMap]

\* the registry's wrappedOnDeviceEvent for a value handed on by
\* handleDeviceEvent: learning when it is enabled, the save of what was
\* learned, then the owner's onDeviceEvent
learnerEvent(l, deviceId, value, now) ==
  LET tracked == IF Accepted(value) /\ l.enableLearning
                 THEN trackTimeoutLearning(l.timeoutLearning, Unsaved, deviceId, value, now)
                 ELSE [learning |-> l.timeoutLearning, stored |-> Unsaved]
      completes == /\ l.enableLearning
                   /\ value = "false"
                   /\ deviceId \in DOMAIN l.timeoutLearning
                   /\ l.timeoutLearning[deviceId].lastTrueTimestamp # NoTimestamp
      learned == [l EXCEPT !.timeoutLearning = tracked.learning,
                           !.shortest[deviceId] =
                              IF ~completes THEN @
                              ELSE IF @ = NoCycle \/ now < @ THEN now ELSE @,
                           !.forgotten = IF completes THEN @ \ {deviceId} ELSE @,
                           !.cycle = IF completes THEN now ELSE NoCycle]
      saved == IF tracked.stored = Unsaved THEN learned
               ELSE VersionedStore_save(learned, tracked.stored)
  IN [saved EXCEPT !.forwarded = @ \cup {<<deviceId, value>>}, !.calls = @ + 1]

\* SensorRegistry.handleDeviceEvent: null and a value of another type are
\* skipped, any other value is cached and handed to wrappedOnDeviceEvent
handleDeviceEvent(l, deviceId, value, now) ==
  IF ~Accepted(value) THEN l
  ELSE learnerEvent([l EXCEPT !.capabilityState = cacheValue(@, deviceId, value)],
                    deviceId, value, now)

\* addListener that subscribes without feeding the current value
addListener_subscribeOnly(l, deviceId, outcome) ==
  IF outcome = "missing" THEN l
  ELSE [l EXCEPT !.listeners = @ \cup {deviceId}, !.created = @ \cup {deviceId}]

\* SensorRegistry.addListener: a device that is found and has the capability
\* is fed its current value and gets its listener
addListener(l, deviceId, outcome) ==
  IF outcome = "missing" THEN l
  ELSE [handleDeviceEvent(l, deviceId, outcome, TrueStamp)
          EXCEPT !.listeners = @ \cup {deviceId}, !.created = @ \cup {deviceId}]

RECURSIVE addListeners(_, _, _)
addListeners(l, ids, outcomes) ==
  IF ids = {} THEN l
  ELSE LET id == CHOOSE x \in ids : TRUE
       IN addListeners(addListener(l, id, outcomes[id]), ids \ {id}, outcomes)

\* SensorRegistry.removeListener for each of ids: the listener there is, is
\* destroyed and deleted
removeListener(l, ids) ==
  [l EXCEPT !.listeners = @ \ ids, !.destroyed = @ \cup (ids \cap l.listeners)]

\* MotionSensorRegistry.removeDevice for each of ids; TimeoutStore.remove
\* loads the record, and saves it with the id deleted
RECURSIVE removeDevices(_, _)
removeDevices(l, ids) ==
  IF ids = {} THEN l
  ELSE LET id == CHOOSE x \in ids : TRUE
           loaded == VersionedStore_load(l.envelope, l.stored, l.failing)
           removed == removeDevice(l.timeoutLearning,
                                   IF loaded.found THEN loaded.data ELSE EmptyMap, id)
           learned == getLearnedTimeout(l.timeoutLearning, id) # NotLearned
           forgot == [l EXCEPT !.timeoutLearning = removed.learning,
                               !.shortest[id] = NoCycle,
                               !.forgotten = IF learned THEN @ \cup {id} ELSE @,
                               !.logged = @ \/ "get" \in l.failing]
       IN removeDevices(VersionedStore_save(forgot, removed.stored), ids \ {id})

\* updateDeviceIds whose removals each load the record as it was before the
\* call, so that only the last of them is in what is saved at the end
updateDeviceIds_staleRemove(l, newIds, outcomes) ==
  LET removedIds == l.deviceIds \ newIds
      addedIds == newIds \ l.deviceIds
      parent == [addListeners(removeListener(l, removedIds), addedIds, outcomes)
                   EXCEPT !.deviceIds = newIds]
      removed == removeDevices(parent, removedIds)
  IN [removed EXCEPT !.stored = IF removedIds = {} THEN @
                                ELSE MapDelete(parent.stored,
                                               CHOOSE id \in removedIds : TRUE),
                     !.dropped = removedIds,
                     !.cycle = NoCycle,
                     !.op = "updateDeviceIds"]

\* updateDeviceIds that adds and removes nothing when the sets overlap
updateDeviceIds_rebuild(l, newIds, outcomes) ==
  LET removedIds == l.deviceIds
      addedIds == newIds
      parent == [addListeners(removeListener(l, removedIds), addedIds, outcomes)
                   EXCEPT !.deviceIds = newIds]
  IN [removeDevices(parent, l.deviceIds \ newIds)
        EXCEPT !.dropped = l.deviceIds \ newIds, !.cycle = NoCycle,
               !.op = "updateDeviceIds"]

\* MotionSensorRegistry.updateDeviceIds: the parent removes the listeners of
\* the ids that went and adds those of the ids that came, then the learned
\* data of the ids that went is removed
updateDeviceIds(l, newIds, outcomes) ==
  LET removedIds == l.deviceIds \ newIds
      addedIds == newIds \ l.deviceIds
      parent == [addListeners(removeListener(l, removedIds), addedIds, outcomes)
                   EXCEPT !.deviceIds = newIds]
  IN [removeDevices(parent, removedIds) EXCEPT !.dropped = removedIds,
                                               !.cycle = NoCycle,
                                               !.op = "updateDeviceIds"]

\* SensorRegistry.destroy: the listeners of the configured ids are removed
\* and no id is configured
destroy(l) ==
  [removeListener(l, l.deviceIds) EXCEPT !.deviceIds = {}, !.op = "destroy"]

\* what addListener finds for a device: its value when it exists and has the
\* capability
Found(l, id, outcome) ==
  IF id \in l.resolvable THEN outcome \in EventValues ELSE outcome = "missing"

InitLearner ==
  /\ measure = NoMeasure
  /\ rv = NoRun
  /\ lr \in {NewLearner(enableLearning, deviceIds, resolvable, "absent", EmptyMap, {}) :
               enableLearning \in BOOLEAN, deviceIds \in SUBSET LrIds,
               resolvable \in {LrIds, {"m1"}}}
  /\ DeviceInit([door_sensors |-> {}, motion_sensors |-> {},
                 auto_learn_timeout |-> FALSE])

\* an addListener call of the constructor resolves
LrAddListener(id, outcome, failing) ==
  /\ id \in lr.adding
  /\ Found(lr, id, outcome)
  /\ lr' = [addListener(Begin(lr, failing), id, outcome)
              EXCEPT !.adding = @ \ {id}, !.failing = {}, !.op = "addListener"]
  /\ UNCHANGED <<rv, deviceVars>>

\* a motion sensor's capability listener delivers a value
LrSensorEvent(id, value, now, failing) ==
  /\ id \in lr.listeners
  /\ lr' = [handleDeviceEvent(Begin(lr, failing), id, value, now)
              EXCEPT !.failing = {}, !.op = "sensorEvent"]
  /\ UNCHANGED <<rv, deviceVars>>

\* the settings change: updateDeviceIds(newIds)
LrUpdateDeviceIds(newIds, outcomes, failing) ==
  /\ newIds # lr.deviceIds
  /\ \A id \in LrIds :
       IF id \in newIds \ lr.deviceIds THEN Found(lr, id, outcomes[id])
       ELSE outcomes[id] = "missing"
  /\ lr' = [updateDeviceIds(Begin(lr, failing), newIds, outcomes) EXCEPT !.failing = {}]
  /\ UNCHANGED <<rv, deviceVars>>

\* the device is deleted: destroy()
LrDestroy ==
  /\ lr.deviceIds # {}
  /\ lr' = destroy(Begin(lr, {}))
  /\ UNCHANGED <<rv, deviceVars>>

\* the app restarts: a new registry over the same provider
LrRestart(failing) ==
  /\ lr' = [NewLearner(lr.enableLearning, lr.deviceIds, lr.resolvable, lr.envelope,
                       lr.stored, failing)
              EXCEPT !.shortest = lr.shortest, !.forgotten = lr.forgotten,
                     !.op = "restart"]
  /\ UNCHANGED <<rv, deviceVars>>

NextLearner ==
  \/ \E id \in LrIds, outcome \in Outcomes : LrAddListener(id, outcome, {})
  \/ \E id \in LrIds, value \in EventValues :
       \E now \in IF value = "false" THEN 0..MaxDuration ELSE {TrueStamp} :
         LrSensorEvent(id, value, now, {})
  \/ \E newIds \in SUBSET LrIds, outcomes \in [LrIds -> Outcomes] :
       LrUpdateDeviceIds(newIds, outcomes, {})
  \/ LrDestroy
  \/ LrRestart({})

SpecLearner == InitLearner /\ [][NextLearner]_vars

\* C18: a motion sensor that has completed true->false cycles has as learned
\* timeout the shortest of their durations, and MIN_LEARNED_TIMEOUT if that
\* is shorter still.
C18_LearnedIsClampedMinimum ==
  \A id \in LrIds :
    lr.shortest[id] # NoCycle =>
      getLearnedTimeout(lr.timeoutLearning, id) =
        IF lr.shortest[id] < MIN_LEARNED_TIMEOUT
        THEN MIN_LEARNED_TIMEOUT ELSE lr.shortest[id]

\* m1 has just completed its longest cycle after a cycle shorter than the
\* floor: its learned timeout is the floor
C18_Witness ==
  /\ lr.op = "sensorEvent"
  /\ lr.cycle = MaxDuration
  /\ lr.shortest["m1"] = 0
  /\ getLearnedTimeout(lr.timeoutLearning, "m1") = MIN_LEARNED_TIMEOUT
  /\ lr.timeoutLearning["m1"].lastTrueTimestamp = NoTimestamp

C20_DroppedSensorForgotten ==
  /\ lr.op = "updateDeviceIds" =>
       \A id \in lr.dropped :
         id \notin DOMAIN lr.timeoutLearning /\ id \notin DOMAIN lr.stored
  /\ \A id \in lr.forgotten :
       /\ getLearnedTimeout(lr.timeoutLearning, id) = NotLearned
       /\ id \notin DOMAIN lr.stored
       /\ id \notin DOMAIN loadTimeouts(lr.stored)

\* m1 had a learned timeout, was dropped and added again, and has reported
\* true since: nothing is learned yet
C20_Witness ==
  /\ "m1" \in lr.forgotten
  /\ "m1" \in lr.deviceIds
  /\ "m1" \in lr.listeners
  /\ "m1" \in DOMAIN lr.timeoutLearning
  /\ lr.timeoutLearning["m1"].lastTrueTimestamp = TrueStamp
  /\ getLearnedTimeout(lr.timeoutLearning, "m1") = NotLearned

\* C21: after updateDeviceIds has dropped a device, the registry holds no
\* cached value for it, and isAnyStateTrue, isAllStateTrue, isAnyStateFalse
\* and isAllStateFalse are what they are over the devices still configured.
C21_RemovedDeviceCacheDropped ==
  lr.op = "updateDeviceIds" =>
    LET remaining == [id \in DOMAIN lr.capabilityState \cap lr.deviceIds |->
                        lr.capabilityState[id]]
    IN /\ \A id \in lr.dropped : id \notin DOMAIN lr.capabilityState
       /\ isAnyStateTrue(lr.capabilityState) = isAnyStateTrue(remaining)
       /\ isAllStateTrue(lr.capabilityState) = isAllStateTrue(remaining)
       /\ isAnyStateFalse(lr.capabilityState) = isAnyStateFalse(remaining)
       /\ isAllStateFalse(lr.capabilityState) = isAllStateFalse(remaining)

\* C22: once every addListener call has resolved, the devices with a live
\* listener are exactly the configured devices that exist and have the
\* capability.
C22_ListenersAreConfiguredResolvable ==
  lr.adding = {} => lr.listeners = lr.deviceIds \cap lr.resolvable

\* C23: when an addListener call resolves for a device that is no longer
\* configured, no listener is registered for it, its cached value is as
\* before and no event of it is handed to the handler.
C23_RemovedWhilePendingIsIgnored ==
  [][\A id \in lr.adding \ lr.deviceIds :
       lr'.op = "addListener" /\ id \notin lr'.adding =>
         /\ id \notin lr'.listeners
         /\ id \notin lr'.created
         /\ (id \in DOMAIN lr'.capabilityState) = (id \in DOMAIN lr.capabilityState)
         /\ id \in DOMAIN lr.capabilityState =>
              lr'.capabilityState[id] = lr.capabilityState[id]
         /\ \A value \in EventValues : <<id, value>> \notin lr'.forwarded]_vars

\* C24: a sensor event whose value is null or no boolean changes neither the
\* cached values, nor the learning data and what is stored of it, nor the
\* occupancy state, and registers no event with the state machine.
C24_NonBooleanEventDropped ==
  [][(/\ last'.op \in {"contactSensorEvent", "motionSensorEvent",
                       "addContactListener", "addMotionListener"}
      /\ last'.value \in {"null", "text"})
     => /\ UNCHANGED <<contactState, motionState, timeoutLearning, storedTimeouts,
                       currentState, checkingSensorRegistry, pendingStateChanges, stale>>
        /\ last'.emitted = <<>>
        /\ last'.notified = <<>>]_vars

\* while the room is occupied, a door sensor that was last seen closed
\* delivers a value that is no boolean
C24_Witness ==
  /\ last.op = "contactSensorEvent"
  /\ last.value = "text"
  /\ last.prev = "false"
  /\ last.from = "occupied"
  /\ currentState = "occupied"
  /\ contactState[last.id] = "false"

\* C25: getDeviceConfigs() has an entry for every configured motion sensor
\* and for no other device; its timeout is the sensor's learned timeout when
\* it has one, which is the clamped shortest cycle it completed, and the
\* configured default otherwise.
C25_ConfigPerConfiguredSensor ==
  LET configs == getDeviceConfigs(lr.deviceIds, lr.timeoutLearning)
  IN /\ DOMAIN configs = lr.deviceIds
     /\ \A id \in lr.deviceIds :
          /\ configs[id] =
               IF /\ id \in DOMAIN lr.timeoutLearning
                  /\ lr.timeoutLearning[id].learnedTimeoutMs # NotLearned
               THEN lr.timeoutLearning[id].learnedTimeoutMs ELSE motion_timeout
          /\ configs[id] =
               IF lr.shortest[id] = NoCycle THEN motion_timeout
               ELSE Max(lr.shortest[id], MIN_LEARNED_TIMEOUT)

\* m1 and m2 are configured, m1 has learned the floor and m2, which is
\* tracked, has learned nothing
C25_Witness ==
  /\ lr.deviceIds = {"m1", "m2"}
  /\ "m2" \in DOMAIN lr.timeoutLearning
  /\ getDeviceConfigs(lr.deviceIds, lr.timeoutLearning) =
       [id \in {"m1", "m2"} |->
          IF id = "m1" THEN MIN_LEARNED_TIMEOUT ELSE motion_timeout]
  /\ MIN_LEARNED_TIMEOUT # motion_timeout

\* the defaults getMinLearnedTimeout may be asked with
Defaults == 1..(MaxDuration + 1)

\* the learned timeouts of the tracked devices
LearnedTimeouts ==
  {lr.timeoutLearning[id].learnedTimeoutMs : id \in DOMAIN lr.timeoutLearning} \ {NotLearned}

C30_RetainedDeviceUntouched ==
  [][lr'.op = "updateDeviceIds" =>
       \A id \in lr.deviceIds \cap lr'.deviceIds :
         /\ id \notin lr'.destroyed
         /\ id \notin lr'.created
         /\ (id \in lr'.listeners) = (id \in lr.listeners)
         /\ (id \in DOMAIN lr'.capabilityState) = (id \in DOMAIN lr.capabilityState)
         /\ id \in DOMAIN lr.capabilityState =>
              lr'.capabilityState[id] = lr.capabilityState[id]
         /\ (id \in DOMAIN lr'.timeoutLearning) = (id \in DOMAIN lr.timeoutLearning)
         /\ id \in DOMAIN lr.timeoutLearning =>
              lr'.timeoutLearning[id] = lr.timeoutLearning[id]
         /\ (id \in DOMAIN lr'.stored) = (id \in DOMAIN lr.stored)
         /\ id \in DOMAIN lr.stored => lr'.stored[id] = lr.stored[id]
         /\ \A value \in EventValues : <<id, value>> \notin lr'.forwarded]_vars

\* updateDeviceIds has added m2, which reported true, next to m1, which keeps
\* its listener, its cached value and its learned timeout
C30_Witness ==
  /\ lr.op = "updateDeviceIds"
  /\ lr.deviceIds = {"m1", "m2"}
  /\ lr.listeners = {"m1", "m2"}
  /\ lr.created = {"m2"}
  /\ lr.forwarded = {<<"m2", "true">>}
  /\ lr.capabilityState = [id \in {"m1", "m2"} |-> IF id = "m1" THEN "false" ELSE "true"]
  /\ getLearnedTimeout(lr.timeoutLearning, "m1") = MIN_LEARNED_TIMEOUT
  /\ "m1" \in DOMAIN lr.stored

\* what a load of the provider gives as the learned timeout of a device
Persisted(l, id) ==
  getLearnedTimeout(TimeoutStore_load(l.envelope, l.stored, {}), id)

C38_CurrentValueFedOnce ==
  [][\A id \in LrIds, outcome \in Outcomes :
       LrAddListener(id, outcome, {}) =>
         IF outcome = "missing"
         THEN /\ lr'.listeners = lr.listeners
              /\ lr'.capabilityState = lr.capabilityState
              /\ lr'.calls = 0
         ELSE /\ lr'.listeners = lr.listeners \cup {id}
              /\ lr'.capabilityState = MapSet(lr.capabilityState, id, outcome)
              /\ lr'.forwarded = {<<id, outcome>>}
              /\ lr'.calls = 1]_vars

\* C38 amended: the current value is cached and handed on once when it is a
\* boolean; a null or other value is neither cached nor handed on, and the
\* listener is registered all the same.
C38_BooleanCurrentValueFedOnce ==
  [][\A id \in LrIds, outcome \in Outcomes :
       LrAddListener(id, outcome, {}) =>
         IF outcome = "missing"
         THEN /\ lr'.listeners = lr.listeners
              /\ lr'.capabilityState = lr.capabilityState
              /\ lr'.calls = 0
         ELSE /\ lr'.listeners = lr.listeners \cup {id}
              /\ IF outcome \in {"true", "false"}
                 THEN /\ lr'.capabilityState = MapSet(lr.capabilityState, id, outcome)
                      /\ lr'.forwarded = {<<id, outcome>>}
                      /\ lr'.calls = 1
                 ELSE /\ lr'.capabilityState = lr.capabilityState
                      /\ lr'.forwarded = {}
                      /\ lr'.calls = 0]_vars

\* m2 was skipped as missing, and then m1's subscription succeeded with the
\* value true, which is cached and was handed on once
C38_Witness ==
  /\ lr.op = "addListener"
  /\ lr.deviceIds = {"m1", "m2"}
  /\ lr.adding = {}
  /\ lr.listeners = {"m1"}
  /\ lr.created = {"m1"}
  /\ lr.capabilityState = [id \in {"m1"} |-> "true"]
  /\ lr.forwarded = {<<"m1", "true">>}
  /\ lr.calls = 1

\* C39: the four queries depend on the cached values alone, those of the
\* devices a boolean value has been observed of: a device without one does
\* not count, and with no cached value isAllStateFalse() is true and
\* isAnyStateTrue() is false.
C39_QueriesOverObservedValues ==
  LET cached == lr.capabilityState
      observed == DOMAIN cached
  IN /\ isAnyStateTrue(cached) = (\E id \in observed : cached[id] = "true")
     /\ isAllStateTrue(cached) = (\A id \in observed : cached[id] = "true")
     /\ isAnyStateFalse(cached) = (\E id \in observed : cached[id] = "false")
     /\ isAllStateFalse(cached) = (\A id \in observed : cached[id] = "false")
     /\ observed = {} => isAllStateFalse(cached) /\ ~isAnyStateTrue(cached)

\* m1 and m2 are subscribed; m1 was observed false and m2, whose value is
\* null, has not been observed: all states are false and none is true
C39_Witness ==
  /\ lr.listeners = {"m1", "m2"}
  /\ lr.adding = {}
  /\ lr.capabilityState = [id \in {"m1"} |-> "false"]
  /\ isAllStateFalse(lr.capabilityState)
  /\ ~isAnyStateTrue(lr.capabilityState)
  /\ ~isAllStateTrue(lr.capabilityState)

StoredRecords == UNION {[S -> StoredValues] : S \in SUBSET LrIds}

InitStore ==
  /\ measure = NoMeasure
  /\ rv = NoRun
  /\ \E envelope \in Envelopes, failing \in SUBSET {"get"} :
       \E stored \in IF envelope \in {"absent", "corrupt"} THEN {EmptyMap}
                     ELSE StoredRecords :
         lr = NewLearner(TRUE, {"m1"}, {"m1"}, envelope, stored, failing)
  /\ DeviceInit([door_sensors |-> {}, motion_sensors |-> {},
                 auto_learn_timeout |-> FALSE])

\* VersionedStore.clear()
LrClear(failing) ==
  /\ lr' = [VersionedStore_clear(Begin(lr, failing))
              EXCEPT !.failing = {}, !.op = "clear"]
  /\ UNCHANGED <<rv, deviceVars>>

NextStore ==
  \/ \E id \in LrIds, outcome \in Outcomes, failing \in SUBSET {"set"} :
       LrAddListener(id, outcome, failing)
  \/ \E id \in LrIds, value \in EventValues, failing \in SUBSET {"set"} :
       \E now \in IF value = "false" THEN 0..MaxDuration ELSE {TrueStamp} :
         LrSensorEvent(id, value, now, failing)
  \/ \E newIds \in SUBSET {"m1"}, outcomes \in [LrIds -> Outcomes],
        failing \in SUBSET {"get", "set"} :
       LrUpdateDeviceIds(newIds, outcomes, failing)
  \/ LrDestroy
  \/ \E failing \in SUBSET {"get"} : LrRestart(failing)
  \/ \E failing \in SUBSET {"unset"} : LrClear(failing)

SpecStore == InitStore /\ [][NextStore]_vars

\* C27: a registry constructed over a provider that holds nothing under the
\* key, a value that is no object, or an object of another version starts
\* with no learned timeout, and the load does not throw.
C27_UnusableDataIsAbsent ==
  lr.op \in {"new", "restart"} /\ lr.envelope # "current" =>
    /\ lr.timeoutLearning = EmptyMap
    /\ \A id \in LrIds : getLearnedTimeout(lr.timeoutLearning, id) = NotLearned
    /\ ~lr.raised

\* the app restarted over an object of another version that holds a usable
\* timeout for m1: nothing is learned
C27_Witness ==
  /\ lr.op = "restart"
  /\ lr.envelope = "stale"
  /\ "m1" \in DOMAIN lr.stored
  /\ lr.stored["m1"] = MIN_LEARNED_TIMEOUT
  /\ ~lr.logged
  /\ lr.timeoutLearning = EmptyMap

\* C28: no call of the store rejects or throws, whatever call of the provider
\* throws. A sensor event whose save fails is still cached and forwarded to
\* the handler, a cycle it completes is still learned in memory, and the
\* failure is logged and leaves what the provider holds; a failing unset
\* and a failing read at a restart are logged, the restart starting with
\* nothing learned; an updateDeviceIds whose remove fails still forgets the
\* dropped sensors in memory.
C28_StoreFailuresAreContained ==
  [][/\ ~lr'.rejected
     /\ ~lr'.raised
     /\ \A id \in LrIds, value \in {"true", "false"}, now \in 0..MaxDuration :
          LrSensorEvent(id, value, now, {"set"}) =>
            LET before == getLearnedTimeout(lr.timeoutLearning, id)
                after == getLearnedTimeout(lr'.timeoutLearning, id)
                clamped == Max(now, MIN_LEARNED_TIMEOUT)
                completes == /\ value = "false"
                             /\ id \in DOMAIN lr.timeoutLearning
                             /\ lr.timeoutLearning[id].lastTrueTimestamp # NoTimestamp
            IN /\ lr'.forwarded = {<<id, value>>}
               /\ lr'.capabilityState[id] = value
               /\ lr'.timeoutLearning[id].lastTrueTimestamp =
                    IF value = "true" THEN TrueStamp ELSE NoTimestamp
               /\ after = IF completes /\ (before = NotLearned \/ clamped < before)
                          THEN clamped ELSE before
               /\ lr'.logged = (after # before)
               /\ lr'.stored = lr.stored /\ lr'.envelope = lr.envelope
     /\ LrClear({"unset"}) =>
          lr'.logged /\ lr'.stored = lr.stored /\ lr'.envelope = lr.envelope
     /\ LrRestart({"get"}) => lr'.logged /\ lr'.timeoutLearning = EmptyMap
     /\ \A newIds \in SUBSET LrIds, outcomes \in [LrIds -> Outcomes],
           failing \in {{"set"}, {"get", "set"}} :
          LrUpdateDeviceIds(newIds, outcomes, failing) /\ lr'.dropped # {} =>
            /\ lr'.logged
            /\ \A id \in lr'.dropped : id \notin DOMAIN lr'.timeoutLearning
            /\ lr'.stored = lr.stored /\ lr'.envelope = lr.envelope]_vars

\* m1 completed a cycle shorter than the floor while the provider's write
\* threw: the floor is learned in memory, the event was forwarded, the error
\* logged, and the provider still holds nothing for m1
C28_Witness ==
  /\ lr.op = "sensorEvent"
  /\ lr.cycle = 0
  /\ lr.logged
  /\ ~lr.rejected
  /\ lr.forwarded = {<<"m1", "false">>}
  /\ getLearnedTimeout(lr.timeoutLearning, "m1") = MIN_LEARNED_TIMEOUT
  /\ "m1" \notin DOMAIN lr.stored

\* C29: a registry constructed over a provider that holds an object of the
\* store's version, and whose read does not throw, holds learning data for
\* exactly the stored entries whose value is a number above zero, each with
\* that value as learned timeout and no pending true timestamp.
C29_LoadKeepsPositiveNumbers ==
  lr.op \in {"new", "restart"} /\ lr.envelope = "current" /\ ~lr.logged =>
    /\ DOMAIN lr.timeoutLearning =
         {id \in DOMAIN lr.stored : lr.stored[id] # NotANumber /\ lr.stored[id] > 0}
    /\ \A id \in DOMAIN lr.timeoutLearning :
         /\ lr.timeoutLearning[id].learnedTimeoutMs = lr.stored[id]
         /\ lr.timeoutLearning[id].lastTrueTimestamp = NoTimestamp

\* the app restarted over a provider that holds a usable timeout for m1 and
\* zero for m2
C29_Witness ==
  /\ lr.op = "restart"
  /\ lr.envelope = "current"
  /\ ~lr.logged
  /\ lr.stored = [id \in {"m1", "m2"} |-> IF id = "m1" THEN MaxDuration ELSE 0]
  /\ DOMAIN lr.timeoutLearning = {"m1"}

(***************************************************************************)
(* The device under its flow cards, its overlapping state-change           *)
(* notifications and its deletion.                                         *)
(***************************************************************************)
\* device.onDeleted: both sensor registries are destroyed. destroy() removes
\* the listeners of the configured ids; an addListener still awaiting its
\* device, the checking registry and the suspended onStateChange calls are
\* left as they are.
OnDeleted ==
  /\ ~deleted
  /\ deleted' = TRUE
  /\ contactListeners' = {}
  /\ motionListeners' = {}
  /\ last' = Op("onDeleted", "", "", Dev, 0)
  /\ UNCHANGED <<rv, lr, measure, alarm_motion, settings, currentState, occupancy_state,
                 checkingSensorRegistry, stale, pendingStateChanges, contactState,
                 contactAdding, motionState, motionAdding, timeoutLearning,
                 storedTimeouts>>

\* a first start of the device (nothing persisted) under the small settings
InitOverlap ==
  /\ measure = NoMeasure
  /\ rv = NoRun
  /\ lr = NoLearner
  /\ \E config \in SmallConfigurations : DeviceInit(config)
  /\ storedTimeouts = EmptyMap

NextOverlap == Next \/ OnDeleted

SpecOverlap == InitOverlap /\ [][NextOverlap]_vars

\* the number of rendezvous timer instances that have a pending countdown
Running ==
  (IF checkingSensorRegistry # NoReg /\ HasPendingTimer(checkingSensorRegistry)
   THEN 1 ELSE 0)
  + Cardinality({i \in 1..Len(stale) : HasPendingTimer(stale[i])})

C40_NothingAfterDeleted ==
  deleted =>
    /\ contactListeners = {}
    /\ motionListeners = {}
    /\ Running = 0
    /\ last.op # "onDeleted" =>
         /\ last.notified = <<>>
         /\ last.op # "resumeStateChange"

\* C35: with auto_learn_timeout off no step creates or changes learning data
\* or writes the store, and getDeviceConfigs() gives every configured motion
\* sensor the configured default.
C35_DisabledLearningUsesDefault ==
  [][~settings.auto_learn_timeout =>
       /\ timeoutLearning' = timeoutLearning
       /\ storedTimeouts' = storedTimeouts
       /\ getDeviceConfigs(settings.motion_sensors, timeoutLearning') =
            [id \in settings.motion_sensors |-> motion_timeout]]_vars

\* no onStateChange invocation is suspended
Quiescent == pendingStateChanges = <<>>

\* C34: once no notification is in flight, the published occupancy_state is
\* the state machine's state and alarm_motion is the active_on setting of
\* that state, also after notifications that overlapped.
C34_PublishedMatchesState ==
  Quiescent =>
    /\ occupancy_state = currentState
    /\ alarm_motion = alarmState(settings, currentState)

\* C31: after the reset_state_action card has run, whatever the state it ran
\* in, the state is empty.
C31_ResetGivesEmpty ==
  last.op = "triggerEventFromFlow" /\ last.value = "timeout" => currentState = "empty"

(***************************************************************************)
(* The learning data of MotionSensorRegistry on its own, under a clock     *)
(* that runs: variable measure. With the data the record keeps, per        *)
(* sensor, when the first and the most recent true event of the current    *)
(* window arrived (first, recent) and whether a window is open.            *)
(***************************************************************************)
WinIds == {"m1", "m2"}
\* the last reading of the clock that is explored
MaxClock == 4

InitWindow ==
  /\ rv = NoRun
  /\ lr = NoLearner
  /\ measure = [timeoutLearning |-> EmptyMap, now |-> 0,
                first |-> [id \in WinIds |-> NoTimestamp],
                recent |-> [id \in WinIds |-> NoTimestamp],
                open |-> {}, op |-> <<>>]
  /\ DeviceInit([door_sensors |-> {}, motion_sensors |-> {},
                 auto_learn_timeout |-> FALSE])

\* a boolean event of a motion sensor reaches trackTimeoutLearning
WindowEvent(id, value) ==
  /\ measure' =
       [measure EXCEPT
          !.timeoutLearning =
             trackTimeoutLearning(@, Unsaved, id, value, measure.now).learning,
          !.first[id] = IF value = "true" /\ id \notin measure.open
                        THEN measure.now ELSE @,
          !.recent[id] = IF value = "true" THEN measure.now ELSE @,
          !.open = IF value = "true" THEN @ \cup {id} ELSE @ \ {id},
          !.op = <<id, value>>]
  /\ UNCHANGED <<rv, lr, deviceVarsButMeasure>>

\* Date.now() moves on
WindowTick ==
  /\ measure.now < MaxClock
  /\ measure' = [measure EXCEPT !.now = @ + 1, !.op = <<>>]
  /\ UNCHANGED <<rv, lr, deviceVarsButMeasure>>

NextWindow ==
  \/ \E id \in WinIds, value \in {"true", "false"} : WindowEvent(id, value)
  \/ WindowTick

SpecWindow == InitWindow /\ [][NextWindow]_vars

\* C36: a false event that closes a window measures from the most recent
\* true event of that window: the learned timeout becomes the clamped time
\* since then when that is shorter than what was learned, and stays
\* otherwise.
C36_MeasuredFromMostRecentTrue ==
  [][\A id \in WinIds :
       measure'.op = <<id, "false">> /\ id \in measure.open =>
         LET durationMs == Max(measure.now - measure.recent[id], MIN_LEARNED_TIMEOUT)
             old == getLearnedTimeout(measure.timeoutLearning, id)
         IN getLearnedTimeout(measure'.timeoutLearning, id) =
              IF old = NotLearned \/ durationMs < old THEN durationMs ELSE old]_vars

\* m1 reported true twice at different times and then false; what was
\* learned is the time since the second true
C36_Witness ==
  /\ measure # NoMeasure
  /\ measure.op = <<"m1", "false">>
  /\ measure.first["m1"] # NoTimestamp
  /\ measure.first["m1"] < measure.recent["m1"]
  /\ getLearnedTimeout(measure.timeoutLearning, "m1") =
       measure.now - measure.recent["m1"]
  /\ measure.now - measure.recent["m1"] > MIN_LEARNED_TIMEOUT
====
